---- MODULE Spec2Model ----
(***************************************************************************)
(* Model of src/new.py: the interactive yt-dlp downloader.                 *)
(*                                                                         *)
(* Python str values read from the user are sequences of characters        *)
(* (<<"x", "/">>), so that .lower() and Path(...) are computed and not     *)
(* assumed.  Paths follow the POSIX flavour of pathlib.  The file system   *)
(* is the set of directories that exist, each an absolute sequence of      *)
(* segments; it has no symbolic links.                                     *)
(***************************************************************************)
EXTENDS Integers, Sequences, FiniteSets, TLC

VARIABLES pc, DEFAULT_DOWNLOAD_PATH, ffmpeg_path, url, is_audio_only,
          input_url, new_path_input, mode_input, ydl_options, cont_input, cont,
          sessions, exc, fs, out, which_ffmpeg, existing_common

vars == <<pc, DEFAULT_DOWNLOAD_PATH, ffmpeg_path, url, is_audio_only,
          input_url, new_path_input, mode_input, ydl_options, cont_input, cont,
          sessions, exc, fs, out, which_ffmpeg, existing_common>>

\* Number of invalid mode tokens the user types in one iteration.
MaxInvalid == 1

\* Python None, and the value of a local that is not bound yet.
NoneValue == "None"
NoOptions == [unset |-> TRUE]
NotRead == <<"not read">>

----------------------------------------------------------------------------
\* Strings and paths

LowerChar(c) ==
    CASE c = "V" -> "v"
      [] c = "A" -> "a"
      [] c = "N" -> "n"
      [] c = "O" -> "o"
      [] c = "Y" -> "y"
      [] OTHER -> c

\* str.lower()
Lower(s) == [i \in 1..Len(s) |-> LowerChar(s[i])]

\* str.split("/") as pathlib does it when it parses a path
RECURSIVE SplitSlash(_)
SplitSlash(s) ==
    IF s = <<>> THEN << <<>> >>
    ELSE LET rest == SplitSlash(Tail(s))
         IN  IF Head(s) = "/" THEN << <<>> >> \o rest
             ELSE << <<Head(s)>> \o Head(rest) >> \o Tail(rest)

IsRealSegment(g) == g # <<>> /\ g # <<".">>

\* Path(s): empty and "." segments are dropped, ".." is kept.
PathOf(s) ==
    [root  |-> s # <<>> /\ Head(s) = "/",
     parts |-> SelectSeq(SplitSlash(s), IsRealSegment)]

\* The process's working directory and the user's home directory.
Cwd == << <<"w">> >>
Home == << <<"h">> >>

RECURSIVE Collapse(_, _)
Collapse(base, parts) ==
    IF parts = <<>> THEN base
    ELSE IF Head(parts) = <<".", ".">>
         THEN Collapse(IF base = <<>> THEN <<>> ELSE SubSeq(base, 1, Len(base) - 1),
                       Tail(parts))
         ELSE Collapse(Append(base, Head(parts)), Tail(parts))

\* A path with a NUL character in it is one the operating system refuses:
\* p.resolve() and p.mkdir() raise ValueError ("embedded null byte").
ValidPath(p) == \A i \in 1..Len(p.parts) : \A j \in 1..Len(p.parts[i]) : p.parts[i][j] # "NUL"

\* str(p.resolve()) when it does not raise: absolute, ".." collapsed.
Resolve(p) == Collapse(IF p.root THEN <<>> ELSE Cwd, p.parts)

\* Path.home() / "Downloads" / "YT_Downloads"
InitialDownloadPath ==
    [root |-> TRUE, parts |-> Home \o << <<"Downloads">>, <<"YT_Downloads">> >>]

\* The directories p.mkdir(parents=True, exist_ok=True) has to see exist, in
\* the order it creates them: every lexical prefix of p.
MkdirChain(p) ==
    [i \in 1..Len(p.parts) |-> Resolve([root |-> p.root, parts |-> SubSeq(p.parts, 1, i)])]

FirstOfChain(p, k) == {MkdirChain(p)[i] : i \in 1..k}

----------------------------------------------------------------------------
\* What the user may type

UrlInputs == {"", "https://example.com/watch?v=abc"}

PathInputs ==
    { <<>>,
      <<"x">>,
      <<".", "/", "x", "/">>,
      <<"x", "/", ".", ".">>,
      <<"/", "w", "/", "x">>,
      <<"NUL">> }

ModeInputs == { <<"v">>, <<"a">>, <<"V">>, <<"A">>, <<>>, <<"x">>, <<"v", "a">> }

ContInputs ==
    { <<"n", "o">>, <<"n">>, <<"LAM", "ALEF">>, <<"N", "O">>, <<"N">>,
      <<>>, <<"y", "e", "s">>, <<"n", "o", "n">> }

\* What shutil.which("ffmpeg") may return
WhichResults == {NoneValue, "/usr/bin/ffmpeg", "ffmpeg"}

----------------------------------------------------------------------------
\* Output

Msg(m, arg) == [m |-> m, arg |-> arg]
Say(m) == Msg(m, <<>>)
Printed(m) == \E i \in 1..Len(out) : out[i].m = m
LastMsg == IF out = <<>> THEN "" ELSE out[Len(out)].m
InvalidCount == Cardinality({i \in 1..Len(out) : out[i].m = "invalid_mode"})

----------------------------------------------------------------------------
\* Binary locator

common_paths ==
    << "C:/YT/ffmpeg/bin/ffmpeg.exe",
       "C:/YT/ffmpeg/ffmpeg.exe",
       "C:/ffmpeg/bin/ffmpeg.exe",
       "C:/ffmpeg/ffmpeg.exe" >>

\* str(Path(s).resolve()) of a candidate: without a leading "/" it is taken
\* relative to the working directory.
ResolvedStr(s) == "/w/" \o s

\* find_ffmpeg_path that probes common_paths before it asks the search path.
find_ffmpeg_path_candidates_first(which, existing) ==
    IF \E i \in 1..Len(common_paths) : i \in existing
    THEN LET first == CHOOSE i \in 1..Len(common_paths) :
                          /\ i \in existing
                          /\ \A j \in 1..(i - 1) : j \notin existing
         IN  ResolvedStr(common_paths[first])
    ELSE IF which # NoneValue /\ which # "" THEN which ELSE NoneValue

\* find_ffmpeg_path(), given what shutil.which returns and which entries of
\* common_paths exist on disk.
find_ffmpeg_path(which, existing) ==
    IF which # NoneValue /\ which # ""
    THEN which
    ELSE IF \E i \in 1..Len(common_paths) : i \in existing
         THEN LET first == CHOOSE i \in 1..Len(common_paths) :
                               /\ i \in existing
                               /\ \A j \in 1..(i - 1) : j \notin existing
              IN  ResolvedStr(common_paths[first])
         ELSE NoneValue

----------------------------------------------------------------------------
\* Options builder

TitleTemplate == <<"%(title)s.%(ext)s">>

\* create_download_options without the resolve() of line 66: the template
\* is built from the path as it was typed.
create_download_options_unresolved(audio_only, ffmpeg) ==
    LET ydl_opts ==
            [outtmpl           |-> Append(DEFAULT_DOWNLOAD_PATH.parts, TitleTemplate),
             ignoreerrors      |-> TRUE,
             ffmpeg_location   |-> ffmpeg,
             restrictfilenames |-> TRUE,
             format            |-> IF ~audio_only THEN "bestvideo*+bestaudio/best"
                                                  ELSE "bestaudio/best"]
    IN  IF audio_only
        THEN [outtmpl           |-> ydl_opts.outtmpl,
              ignoreerrors      |-> ydl_opts.ignoreerrors,
              ffmpeg_location   |-> ydl_opts.ffmpeg_location,
              restrictfilenames |-> ydl_opts.restrictfilenames,
              format            |-> ydl_opts.format,
              postprocessors    |-> << [key              |-> "FFmpegExtractAudio",
                                        preferredcodec   |-> "mp3",
                                        preferredquality |-> "192"] >>,
              extract_audio     |-> TRUE]
        ELSE ydl_opts

\* create_download_options with the test of line 76 dropped: the audio
\* extraction is requested for video downloads too.
create_download_options_always_extracts(audio_only, ffmpeg) ==
    [outtmpl           |-> Append(Resolve(DEFAULT_DOWNLOAD_PATH), TitleTemplate),
     ignoreerrors      |-> TRUE,
     ffmpeg_location   |-> ffmpeg,
     restrictfilenames |-> TRUE,
     format            |-> IF ~audio_only THEN "bestvideo*+bestaudio/best"
                                          ELSE "bestaudio/best",
     postprocessors    |-> << [key              |-> "FFmpegExtractAudio",
                                preferredcodec   |-> "mp3",
                                preferredquality |-> "192"] >>,
     extract_audio     |-> TRUE]

create_download_options(audio_only, ffmpeg) ==
    LET output_template == Append(Resolve(DEFAULT_DOWNLOAD_PATH), TitleTemplate)
        ydl_opts ==
            [outtmpl           |-> output_template,
             ignoreerrors      |-> TRUE,
             ffmpeg_location   |-> ffmpeg,
             restrictfilenames |-> TRUE,
             format            |-> IF ~audio_only THEN "bestvideo*+bestaudio/best"
                                                  ELSE "bestaudio/best"]
    IN  IF audio_only
        THEN [outtmpl           |-> ydl_opts.outtmpl,
              ignoreerrors      |-> ydl_opts.ignoreerrors,
              ffmpeg_location   |-> ydl_opts.ffmpeg_location,
              restrictfilenames |-> ydl_opts.restrictfilenames,
              format            |-> ydl_opts.format,
              postprocessors    |-> << [key              |-> "FFmpegExtractAudio",
                                        preferredcodec   |-> "mp3",
                                        preferredquality |-> "192"] >>,
              extract_audio     |-> TRUE]
        ELSE ydl_opts

----------------------------------------------------------------------------
\* The process

LoopPcs == {"prompt_url", "prompt_path", "prompt_mode", "check_url",
            "ensure_folder", "build_options", "enter_session", "download",
            "open_folder", "exit_session", "handle_error", "ask_continue"}

BaseDirs == { <<>>, Cwd, Home, Home \o << <<"Downloads">> >> }

Init ==
    /\ pc = "update"
    /\ DEFAULT_DOWNLOAD_PATH = InitialDownloadPath
    /\ ffmpeg_path = NoneValue
    /\ url = NoneValue
    /\ is_audio_only = FALSE
    /\ input_url = NoneValue
    /\ new_path_input = <<>>
    /\ mode_input = NotRead
    /\ cont_input = NotRead
    /\ ydl_options = NoOptions
    /\ cont = <<>>
    /\ sessions = 0
    /\ exc = "none"
    /\ fs = BaseDirs
    /\ out = <<>>
    /\ which_ffmpeg \in WhichResults
    /\ existing_common \in SUBSET (1..Len(common_paths))

\* update_ytdlp_library() without its try block: a failure of pip ends the
\* process.
UpdateLibrary_raises ==
    /\ pc = "update"
    /\ \E ok \in BOOLEAN :
          /\ out' = <<Say("checking_updates"),
                      Say(IF ok THEN "update_ok" ELSE "traceback")>>
          /\ pc' = IF ok THEN "find_ffmpeg" ELSE "crashed"
    /\ UNCHANGED <<DEFAULT_DOWNLOAD_PATH, ffmpeg_path, url, is_audio_only,
                   input_url, new_path_input, ydl_options, cont, sessions, exc, fs,
                   mode_input, cont_input, which_ffmpeg, existing_common>>

\* update_ytdlp_library(): pip succeeds or raises; both are reported.
UpdateLibrary ==
    /\ pc = "update"
    /\ \E ok \in BOOLEAN :
          out' = <<Say("checking_updates"),
                   Say(IF ok THEN "update_ok" ELSE "update_failed")>>
    /\ pc' = "find_ffmpeg"
    /\ UNCHANGED <<DEFAULT_DOWNLOAD_PATH, ffmpeg_path, url, is_audio_only,
                   input_url, new_path_input, ydl_options, cont, sessions, exc, fs,
                   mode_input, cont_input, which_ffmpeg, existing_common>>

\* main, line 120
FindFfmpeg ==
    /\ pc = "find_ffmpeg"
    /\ ffmpeg_path' = find_ffmpeg_path(which_ffmpeg, existing_common)
    /\ pc' = "check_ffmpeg"
    /\ UNCHANGED <<DEFAULT_DOWNLOAD_PATH, url, is_audio_only, input_url, new_path_input,
                   ydl_options, cont, sessions, exc, fs, out,
                   mode_input, cont_input, which_ffmpeg, existing_common>>

\* CheckFfmpeg that warns and forgets the fallback assignment of line 127.
CheckFfmpeg_no_fallback ==
    /\ pc = "check_ffmpeg"
    /\ IF ffmpeg_path = NoneValue \/ ffmpeg_path = "" \/ ffmpeg_path = "ffmpeg"
       THEN out' = Append(out, Say("ffmpeg_not_found"))
       ELSE out' = Append(out, Say("ffmpeg_found"))
    /\ pc' = "prompt_url"
    /\ UNCHANGED <<DEFAULT_DOWNLOAD_PATH, ffmpeg_path, url, is_audio_only,
                   input_url, new_path_input, ydl_options, cont, sessions, exc,
                   fs, mode_input, cont_input, which_ffmpeg, existing_common>>

\* main, lines 121-129
CheckFfmpeg ==
    /\ pc = "check_ffmpeg"
    /\ IF ffmpeg_path = NoneValue \/ ffmpeg_path = "" \/ ffmpeg_path = "ffmpeg"
       THEN /\ out' = Append(out, Say("ffmpeg_not_found"))
            /\ ffmpeg_path' = "ffmpeg"
       ELSE /\ out' = Append(out, Say("ffmpeg_found"))
            /\ UNCHANGED ffmpeg_path
    /\ pc' = "prompt_url"
    /\ UNCHANGED <<DEFAULT_DOWNLOAD_PATH, url, is_audio_only, input_url, new_path_input,
                   ydl_options, cont, sessions, exc, fs,
                   mode_input, cont_input, which_ffmpeg, existing_common>>

\* PromptUrl that gives up at once on an empty URL, without the path and
\* mode prompts.
PromptUrl_returns_early ==
    /\ pc = "prompt_url"
    /\ \E u \in UrlInputs :
          IF u = ""
          THEN /\ url' = u
               /\ pc' = "check_url"
               /\ UNCHANGED input_url
          ELSE /\ input_url' = u
               /\ pc' = "prompt_path"
               /\ UNCHANGED url
    /\ out' = <<Say("banner")>>
    /\ UNCHANGED <<DEFAULT_DOWNLOAD_PATH, ffmpeg_path, is_audio_only,
                   new_path_input, ydl_options, cont, sessions, exc, fs,
                   mode_input, cont_input, which_ffmpeg, existing_common>>

\* get_user_input, lines 90-94: the banner and the URL prompt
PromptUrl ==
    /\ pc = "prompt_url"
    /\ \E u \in UrlInputs : input_url' = u
    /\ out' = <<Say("banner")>>
    /\ pc' = "prompt_path"
    /\ UNCHANGED <<DEFAULT_DOWNLOAD_PATH, ffmpeg_path, url, is_audio_only,
                   new_path_input, ydl_options, cont, sessions, exc, fs,
                   mode_input, cont_input, which_ffmpeg, existing_common>>

\* PromptPath with the test of line 101 dropped: the answer always replaces
\* the path.
PromptPath_unconditional ==
    /\ pc = "prompt_path"
    /\ IF ValidPath(DEFAULT_DOWNLOAD_PATH)
       THEN /\ \E typed \in PathInputs : new_path_input' = typed
            /\ DEFAULT_DOWNLOAD_PATH' = PathOf(new_path_input')
            /\ out' = Append(out, Say("current_path"))
            /\ pc' = "prompt_mode"
       ELSE /\ out' = Append(out, Say("traceback"))
            /\ pc' = "crashed"
            /\ UNCHANGED <<DEFAULT_DOWNLOAD_PATH, new_path_input>>
    /\ UNCHANGED <<ffmpeg_path, url, is_audio_only, input_url, ydl_options,
                   cont, sessions, exc, fs, mode_input, cont_input, which_ffmpeg, existing_common>>

\* get_user_input, lines 96-102: the path prompt shows the current path.
\* Line 97 resolves the current path outside of any try block: when that
\* raises, the exception leaves get_user_input and main, and the process
\* ends with a traceback.
PromptPath ==
    /\ pc = "prompt_path"
    /\ IF ValidPath(DEFAULT_DOWNLOAD_PATH)
       THEN /\ \E typed \in PathInputs : new_path_input' = typed
            /\ DEFAULT_DOWNLOAD_PATH' =
                   IF new_path_input' # <<>> THEN PathOf(new_path_input')
                                             ELSE DEFAULT_DOWNLOAD_PATH
            /\ out' = Append(out, Say("current_path"))
            /\ pc' = "prompt_mode"
       ELSE /\ out' = Append(out, Say("traceback"))
            /\ pc' = "crashed"
            /\ UNCHANGED <<DEFAULT_DOWNLOAD_PATH, new_path_input>>
    /\ UNCHANGED <<ffmpeg_path, url, is_audio_only, input_url, ydl_options,
                   cont, sessions, exc, fs, mode_input, cont_input, which_ffmpeg, existing_common>>

\* PromptMode without the .lower() of line 105.
PromptMode_no_lower ==
    /\ pc = "prompt_mode"
    /\ \E typed \in ModeInputs : mode_input' = typed
    /\ LET mode == mode_input'
       IN  IF mode \in {<<"v">>, <<"a">>}
           THEN /\ url' = input_url
                /\ is_audio_only' = (mode = <<"a">>)
                /\ input_url' = NoneValue
                /\ new_path_input' = <<>>
                /\ pc' = "check_url"
                /\ UNCHANGED out
           ELSE /\ InvalidCount < MaxInvalid
                /\ out' = Append(out, Say("invalid_mode"))
                /\ UNCHANGED <<url, is_audio_only, input_url, new_path_input, pc>>
    /\ UNCHANGED <<DEFAULT_DOWNLOAD_PATH, ffmpeg_path, ydl_options, cont,
                   sessions, exc, fs, cont_input, which_ffmpeg, existing_common>>

\* get_user_input, lines 104-112: one turn of the mode loop, and the return.
\* mode_input is the line read at the mode prompt, before .lower().
PromptMode ==
    /\ pc = "prompt_mode"
    /\ \E typed \in ModeInputs : mode_input' = typed
    /\ LET mode == Lower(mode_input')
       IN  IF mode \in {<<"v">>, <<"a">>}
           THEN /\ url' = input_url
                /\ is_audio_only' = (mode = <<"a">>)
                /\ input_url' = NoneValue
                /\ new_path_input' = <<>>
                /\ pc' = "check_url"
                /\ UNCHANGED out
           ELSE /\ InvalidCount < MaxInvalid
                /\ out' = Append(out, Say("invalid_mode"))
                /\ UNCHANGED <<url, is_audio_only, input_url, new_path_input, pc>>
    /\ UNCHANGED <<DEFAULT_DOWNLOAD_PATH, ffmpeg_path, ydl_options, cont,
                   sessions, exc, fs, cont_input, which_ffmpeg, existing_common>>

\* CheckUrl whose empty-URL branch falls to the continue-prompt instead of
\* starting the next iteration.
CheckUrl_asks_continue ==
    /\ pc = "check_url"
    /\ IF url = ""
       THEN /\ out' = Append(out, Say("no_url"))
            /\ pc' = "ask_continue"
       ELSE /\ pc' = "ensure_folder"
            /\ UNCHANGED out
    /\ mode_input' = NotRead
    /\ UNCHANGED <<DEFAULT_DOWNLOAD_PATH, ffmpeg_path, url, is_audio_only,
                   input_url, new_path_input, ydl_options, cont, sessions, exc,
                   fs, cont_input, which_ffmpeg, existing_common>>

\* main, lines 136-138; the line read at the mode prompt is out of scope
\* once get_user_input has returned.
CheckUrl ==
    /\ pc = "check_url"
    /\ IF url = ""
       THEN /\ out' = Append(out, Say("no_url"))
            /\ pc' = "prompt_url"
       ELSE /\ pc' = "ensure_folder"
            /\ UNCHANGED out
    /\ mode_input' = NotRead
    /\ UNCHANGED <<DEFAULT_DOWNLOAD_PATH, ffmpeg_path, url, is_audio_only,
                   input_url, new_path_input, ydl_options, cont, sessions, exc,
                   fs, cont_input, which_ffmpeg, existing_common>>

\* EnsureFolder whose except clause reports and then goes on to the download
\* (the continue of line 147 missing).
EnsureFolder_falls_through ==
    /\ pc = "ensure_folder"
    /\ \/ /\ ValidPath(DEFAULT_DOWNLOAD_PATH)
          /\ fs' = fs \cup FirstOfChain(DEFAULT_DOWNLOAD_PATH,
                                        Len(DEFAULT_DOWNLOAD_PATH.parts))
          /\ out' = Append(out, Msg("saved_in", Resolve(DEFAULT_DOWNLOAD_PATH)))
       \/ /\ \E k \in 0..Len(DEFAULT_DOWNLOAD_PATH.parts) :
                /\ ValidPath(DEFAULT_DOWNLOAD_PATH) \/ k = 0
                /\ fs' = fs \cup FirstOfChain(DEFAULT_DOWNLOAD_PATH, k)
          /\ out' = Append(out, Say("mkdir_failed"))
    /\ pc' = "build_options"
    /\ UNCHANGED <<DEFAULT_DOWNLOAD_PATH, ffmpeg_path, url, is_audio_only,
                   input_url, new_path_input, ydl_options, cont, sessions, exc,
                   mode_input, cont_input, which_ffmpeg, existing_common>>

\* EnsureFolder whose except clause goes to the continue-prompt instead of
\* the next iteration.
EnsureFolder_asks_continue ==
    /\ pc = "ensure_folder"
    /\ \/ /\ ValidPath(DEFAULT_DOWNLOAD_PATH)
          /\ fs' = fs \cup FirstOfChain(DEFAULT_DOWNLOAD_PATH,
                                        Len(DEFAULT_DOWNLOAD_PATH.parts))
          /\ out' = Append(out, Msg("saved_in", Resolve(DEFAULT_DOWNLOAD_PATH)))
          /\ pc' = "build_options"
       \/ /\ \E k \in 0..Len(DEFAULT_DOWNLOAD_PATH.parts) :
                /\ ValidPath(DEFAULT_DOWNLOAD_PATH) \/ k = 0
                /\ fs' = fs \cup FirstOfChain(DEFAULT_DOWNLOAD_PATH, k)
          /\ out' = Append(out, Say("mkdir_failed"))
          /\ pc' = "ask_continue"
    /\ UNCHANGED <<DEFAULT_DOWNLOAD_PATH, ffmpeg_path, url, is_audio_only,
                   input_url, new_path_input, ydl_options, cont, sessions, exc,
                   mode_input, cont_input, which_ffmpeg, existing_common>>

\* main, lines 141-147: mkdir(parents=True, exist_ok=True) either completes,
\* or raises after it has created the first k directories of the chain; for
\* a path the operating system refuses it raises at once.
EnsureFolder ==
    /\ pc = "ensure_folder"
    /\ \/ /\ ValidPath(DEFAULT_DOWNLOAD_PATH)
          /\ fs' = fs \cup FirstOfChain(DEFAULT_DOWNLOAD_PATH,
                                        Len(DEFAULT_DOWNLOAD_PATH.parts))
          /\ out' = Append(out, Msg("saved_in", Resolve(DEFAULT_DOWNLOAD_PATH)))
          /\ pc' = "build_options"
       \/ /\ \E k \in 0..Len(DEFAULT_DOWNLOAD_PATH.parts) :
                /\ ValidPath(DEFAULT_DOWNLOAD_PATH) \/ k = 0
                /\ fs' = fs \cup FirstOfChain(DEFAULT_DOWNLOAD_PATH, k)
          /\ out' = Append(out, Say("mkdir_failed"))
          /\ pc' = "prompt_url"
    /\ UNCHANGED <<DEFAULT_DOWNLOAD_PATH, ffmpeg_path, url, is_audio_only,
                   input_url, new_path_input, ydl_options, cont, sessions, exc,
                   mode_input, cont_input, which_ffmpeg, existing_common>>

\* BuildOptions that looks the binary up again for every download instead
\* of using the path main resolved at start.
BuildOptions_relocates ==
    /\ pc = "build_options"
    /\ ffmpeg_path' = find_ffmpeg_path(which_ffmpeg, existing_common)
    /\ IF ValidPath(DEFAULT_DOWNLOAD_PATH)
       THEN /\ ydl_options' = create_download_options(is_audio_only, ffmpeg_path')
            /\ out' = Append(out, Say(IF is_audio_only THEN "type_audio"
                                                        ELSE "type_video"))
            /\ pc' = "enter_session"
       ELSE /\ out' = Append(out, Say("traceback"))
            /\ pc' = "crashed"
            /\ UNCHANGED ydl_options
    /\ UNCHANGED <<DEFAULT_DOWNLOAD_PATH, url, is_audio_only,
                   input_url, new_path_input, cont, sessions, exc, fs,
                   mode_input, cont_input, which_ffmpeg, existing_common>>

\* main, lines 150-154; line 66 resolves the path outside of any try block.
BuildOptions ==
    /\ pc = "build_options"
    /\ IF ValidPath(DEFAULT_DOWNLOAD_PATH)
       THEN /\ ydl_options' = create_download_options(is_audio_only, ffmpeg_path)
            /\ out' = Append(out, Say(IF is_audio_only THEN "type_audio"
                                                        ELSE "type_video"))
            /\ pc' = "enter_session"
       ELSE /\ out' = Append(out, Say("traceback"))
            /\ pc' = "crashed"
            /\ UNCHANGED ydl_options
    /\ UNCHANGED <<DEFAULT_DOWNLOAD_PATH, ffmpeg_path, url, is_audio_only,
                   input_url, new_path_input, cont, sessions, exc, fs,
                   mode_input, cont_input, which_ffmpeg, existing_common>>

\* main, line 157: YoutubeDL(ydl_options) is constructed and entered, or the
\* constructor raises and no session was opened.
EnterSession ==
    /\ pc = "enter_session"
    /\ \/ /\ sessions' = sessions + 1
          /\ pc' = "download"
          /\ UNCHANGED exc
       \/ /\ \E e \in {"DownloadError", "Exception"} : exc' = e
          /\ pc' = "handle_error"
          /\ UNCHANGED sessions
    /\ UNCHANGED <<DEFAULT_DOWNLOAD_PATH, ffmpeg_path, url, is_audio_only,
                   input_url, new_path_input, ydl_options, cont, fs, out,
                   mode_input, cont_input, which_ffmpeg, existing_common>>

\* main, lines 158-161: ydl.download([url]) returns or raises
Download ==
    /\ pc = "download"
    /\ \/ /\ out' = Append(out, Say("complete"))
          /\ pc' = "open_folder"
          /\ UNCHANGED exc
       \/ /\ \E e \in {"DownloadError", "Exception"} : exc' = e
          /\ pc' = "exit_session"
          /\ UNCHANGED out
    /\ UNCHANGED <<DEFAULT_DOWNLOAD_PATH, ffmpeg_path, url, is_audio_only,
                   input_url, new_path_input, ydl_options, cont, sessions, fs,
                   mode_input, cont_input, which_ffmpeg, existing_common>>

Platforms == {"Windows", "Darwin", "Linux"}

\* open_download_folder(folder_path): the platform's opener starts or
\* raises; the exception is caught inside.
open_download_folder(folder_path) ==
    \E system \in Platforms, started \in BOOLEAN :
        out' = Append(out, IF started THEN Msg("opening", folder_path)
                                      ELSE Say("open_failed"))

\* OpenFolder that opens the folder the program started with, whatever the
\* user chose since.
OpenFolder_opens_initial ==
    /\ pc = "open_folder"
    /\ IF ValidPath(DEFAULT_DOWNLOAD_PATH)
       THEN /\ open_download_folder(Resolve(InitialDownloadPath))
            /\ UNCHANGED exc
       ELSE /\ exc' = "Exception"
            /\ UNCHANGED out
    /\ pc' = "exit_session"
    /\ UNCHANGED <<DEFAULT_DOWNLOAD_PATH, ffmpeg_path, url, is_audio_only,
                   input_url, new_path_input, ydl_options, cont, sessions, fs,
                   mode_input, cont_input, which_ffmpeg, existing_common>>

\* OpenFolder with an opener that has no try block: its failure is raised
\* into main.
OpenFolder_propagates ==
    /\ pc = "open_folder"
    /\ IF ValidPath(DEFAULT_DOWNLOAD_PATH)
       THEN \E system \in Platforms, started \in BOOLEAN :
               IF started
               THEN /\ out' = Append(out, Msg("opening", Resolve(DEFAULT_DOWNLOAD_PATH)))
                    /\ UNCHANGED exc
               ELSE /\ exc' = "Exception"
                    /\ UNCHANGED out
       ELSE /\ exc' = "Exception"
            /\ UNCHANGED out
    /\ pc' = "exit_session"
    /\ UNCHANGED <<DEFAULT_DOWNLOAD_PATH, ffmpeg_path, url, is_audio_only,
                   input_url, new_path_input, ydl_options, cont, sessions, fs,
                   mode_input, cont_input, which_ffmpeg, existing_common>>

\* main, line 163, still inside the with block and the try block
OpenFolder ==
    /\ pc = "open_folder"
    /\ IF ValidPath(DEFAULT_DOWNLOAD_PATH)
       THEN /\ open_download_folder(Resolve(DEFAULT_DOWNLOAD_PATH))
            /\ UNCHANGED exc
       ELSE /\ exc' = "Exception"
            /\ UNCHANGED out
    /\ pc' = "exit_session"
    /\ UNCHANGED <<DEFAULT_DOWNLOAD_PATH, ffmpeg_path, url, is_audio_only,
                   input_url, new_path_input, ydl_options, cont, sessions, fs,
                   mode_input, cont_input, which_ffmpeg, existing_common>>

\* ExitSession that releases the session on the normal path only.
ExitSession_leaks_on_error ==
    /\ pc = "exit_session"
    /\ sessions' = IF exc = "none" THEN sessions - 1 ELSE sessions
    /\ pc' = IF exc = "none" THEN "ask_continue" ELSE "handle_error"
    /\ UNCHANGED <<DEFAULT_DOWNLOAD_PATH, ffmpeg_path, url, is_audio_only,
                   input_url, new_path_input, ydl_options, cont, exc, fs, out,
                   mode_input, cont_input, which_ffmpeg, existing_common>>

\* The with block is left, normally or by an exception: __exit__ runs.
ExitSession ==
    /\ pc = "exit_session"
    /\ sessions' = sessions - 1
    /\ pc' = IF exc = "none" THEN "ask_continue" ELSE "handle_error"
    /\ UNCHANGED <<DEFAULT_DOWNLOAD_PATH, ffmpeg_path, url, is_audio_only,
                   input_url, new_path_input, ydl_options, cont, exc, fs, out,
                   mode_input, cont_input, which_ffmpeg, existing_common>>

\* HandleError with the generic except clause first: it catches the
\* library's download error too.
HandleError_generic_first ==
    /\ pc = "handle_error"
    /\ out' = Append(out, Say("unexpected_error"))
    /\ exc' = "none"
    /\ pc' = "ask_continue"
    /\ UNCHANGED <<DEFAULT_DOWNLOAD_PATH, ffmpeg_path, url, is_audio_only,
                   input_url, new_path_input, ydl_options, cont, sessions, fs,
                   mode_input, cont_input, which_ffmpeg, existing_common>>

\* main, lines 165-174: the two except clauses
HandleError ==
    /\ pc = "handle_error"
    /\ out' = Append(out, Say(IF exc = "DownloadError" THEN "download_failed"
                                                       ELSE "unexpected_error"))
    /\ exc' = "none"
    /\ pc' = "ask_continue"
    /\ UNCHANGED <<DEFAULT_DOWNLOAD_PATH, ffmpeg_path, url, is_audio_only,
                   input_url, new_path_input, ydl_options, cont, sessions, fs,
                   mode_input, cont_input, which_ffmpeg, existing_common>>

StopTokens == { <<"n", "o">>, <<"n">>, <<"LAM", "ALEF">> }

\* AskContinue without the .lower() of line 177.
AskContinue_no_lower ==
    /\ pc = "ask_continue"
    /\ \E typed \in ContInputs : cont_input' = typed
    /\ cont' = cont_input'
    /\ IF cont' \in StopTokens
       THEN /\ out' = Append(out, Say("goodbye"))
            /\ pc' = "press_enter"
       ELSE /\ out' = Append(out, Say("separator"))
            /\ pc' = "prompt_url"
    /\ UNCHANGED <<DEFAULT_DOWNLOAD_PATH, ffmpeg_path, url, is_audio_only,
                   input_url, new_path_input, ydl_options, sessions, exc, fs,
                   mode_input, which_ffmpeg, existing_common>>

\* main, lines 177-183; cont_input is the line read, before .lower().
AskContinue ==
    /\ pc = "ask_continue"
    /\ \E typed \in ContInputs : cont_input' = typed
    /\ cont' = Lower(cont_input')
    /\ IF cont' \in StopTokens
       THEN /\ out' = Append(out, Say("goodbye"))
            /\ pc' = "press_enter"
       ELSE /\ out' = Append(out, Say("separator"))
            /\ pc' = "prompt_url"
    /\ UNCHANGED <<DEFAULT_DOWNLOAD_PATH, ffmpeg_path, url, is_audio_only,
                   input_url, new_path_input, ydl_options, sessions, exc, fs,
                   mode_input, which_ffmpeg, existing_common>>

\* line 189, after main has returned
PressEnter ==
    /\ pc = "press_enter"
    /\ pc' = "closed"
    /\ UNCHANGED <<DEFAULT_DOWNLOAD_PATH, ffmpeg_path, url, is_audio_only,
                   input_url, new_path_input, ydl_options, cont, sessions, exc, fs, out,
                   mode_input, cont_input, which_ffmpeg, existing_common>>

Next ==
    \/ UpdateLibrary
    \/ FindFfmpeg
    \/ CheckFfmpeg
    \/ PromptUrl
    \/ PromptPath
    \/ PromptMode
    \/ CheckUrl
    \/ EnsureFolder
    \/ BuildOptions
    \/ EnterSession
    \/ Download
    \/ OpenFolder
    \/ ExitSession
    \/ HandleError
    \/ AskContinue
    \/ PressEnter

Spec == Init /\ [][Next]_vars

TypeOK ==
    /\ pc \in LoopPcs \cup {"update", "find_ffmpeg", "check_ffmpeg", "press_enter", "closed", "crashed"}
    /\ sessions \in 0..1
    /\ exc \in {"none", "DownloadError", "Exception"}
    /\ is_audio_only \in BOOLEAN

----------------------------------------------------------------------------
\* Properties

\* C1: the session loop is left only from the continue-prompt, on a response
\* that matches a stop token; no error ends the loop.
C1_LoopLeftOnlyOnStop ==
    [][(pc \in LoopPcs /\ pc' \notin LoopPcs)
          => (pc = "ask_continue" /\ cont' \in StopTokens)]_vars

\* C2: the path prompt replaces the destination directory by the path
\* entered when the entry is not empty and leaves it alone when it is empty;
\* no other step of the program changes the destination directory, so an
\* override stays in force in every later iteration until the next one.
C2_OverridePersists ==
    [][IF pc = "prompt_path" /\ pc' = "prompt_mode"
       THEN DEFAULT_DOWNLOAD_PATH' =
                IF new_path_input' # <<>> THEN PathOf(new_path_input')
                                          ELSE DEFAULT_DOWNLOAD_PATH
       ELSE DEFAULT_DOWNLOAD_PATH' = DEFAULT_DOWNLOAD_PATH]_vars

\* An empty entry in an iteration after an override was made.
C2_Witness ==
    /\ pc = "prompt_mode"
    /\ new_path_input = <<>>
    /\ DEFAULT_DOWNLOAD_PATH = PathOf(<<"x", "/", ".", ".">>)
    /\ ydl_options # NoOptions

\* C3: whenever the download entry point is being invoked, the destination
\* directory exists and the folder step of this iteration has succeeded for
\* exactly this directory.
C3_FolderExistsAtDownload ==
    pc = "download" =>
        /\ ValidPath(DEFAULT_DOWNLOAD_PATH)
        /\ Resolve(DEFAULT_DOWNLOAD_PATH) \in fs
        /\ \E i \in 1..Len(out) :
              out[i] = Msg("saved_in", Resolve(DEFAULT_DOWNLOAD_PATH))

C3_Witness ==
    /\ pc = "download"
    /\ sessions = 1
    /\ new_path_input = <<>>
    /\ DEFAULT_DOWNLOAD_PATH = PathOf(<<"x">>)

\* C4: a failed folder creation is reported and the loop is back at the URL
\* prompt; in that iteration no options were built, no session was opened and
\* no download ran.  Every folder step either succeeds, with the directory
\* on disk, or ends this way.
C4_FolderFailureAborts ==
    /\ [](Printed("mkdir_failed") =>
             /\ pc = "prompt_url"
             /\ LastMsg = "mkdir_failed"
             /\ ~Printed("type_audio") /\ ~Printed("type_video")
             /\ ~Printed("complete")
             /\ sessions = 0 /\ exc = "none")
    /\ [][pc = "ensure_folder" =>
             \/ /\ pc' = "build_options"
                /\ LastMsg' = "saved_in"
                /\ Resolve(DEFAULT_DOWNLOAD_PATH) \in fs'
             \/ /\ pc' = "prompt_url"
                /\ LastMsg' = "mkdir_failed"
                /\ ydl_options' = ydl_options
                /\ sessions' = sessions]_vars

C4_Witness ==
    /\ pc = "prompt_url"
    /\ LastMsg = "mkdir_failed"
    /\ Resolve(DEFAULT_DOWNLOAD_PATH) \notin fs

\* C5: an exception of the download is carried out of the session to the
\* except clauses; the library's download error gets the download-failure
\* message, any other exception the generic one; the next state is the
\* continue-prompt and the folder opener has not run.
C5_DownloadErrorsReported ==
    [][/\ (pc = "download" /\ exc' # "none") => pc' = "exit_session"
       /\ (pc = "exit_session" /\ exc # "none") =>
              (pc' = "handle_error" /\ exc' = exc)
       /\ pc = "handle_error" =>
              /\ pc' = "ask_continue"
              /\ out' = Append(out, Say(IF exc = "DownloadError"
                                        THEN "download_failed"
                                        ELSE "unexpected_error"))
              /\ ~Printed("opening") /\ ~Printed("open_failed")]_vars

C5_Witness ==
    /\ pc = "ask_continue"
    /\ LastMsg = "download_failed"
    /\ Printed("type_audio")

\* C6: at most one session is open, and none is open outside of the with
\* block, whichever way the block was left.
C6_SessionReleased ==
    /\ sessions \in {0, 1}
    /\ pc \notin {"download", "open_folder", "exit_session"} => sessions = 0

C6_Witness ==
    /\ pc = "ask_continue"
    /\ LastMsg = "unexpected_error"
    /\ sessions = 0

\* C7: two calls of create_download_options with the same (audio-only,
\* binary-path) pair return the same record: the record built in an
\* iteration is the record of the last build whenever the two arguments are
\* the arguments of the last build.
C7_SameArgumentsSameRecord ==
    [][(/\ pc = "build_options" /\ pc' = "enter_session"
        /\ ydl_options # NoOptions
        /\ ydl_options.ffmpeg_location = ffmpeg_path
        /\ (ydl_options.format = "bestaudio/best") <=> is_audio_only)
          => ydl_options' = ydl_options]_vars

\* C7, amended: two calls with the same (audio-only, binary-path) pair made
\* while the destination directory resolves to the same directory return the
\* same record.
C7_SameArgumentsAndFolderSameRecord ==
    [][(/\ pc = "build_options" /\ pc' = "enter_session"
        /\ ydl_options # NoOptions
        /\ ydl_options.ffmpeg_location = ffmpeg_path
        /\ (ydl_options.format = "bestaudio/best") <=> is_audio_only
        /\ SubSeq(ydl_options.outtmpl, 1, Len(ydl_options.outtmpl) - 1)
              = Resolve(DEFAULT_DOWNLOAD_PATH))
          => ydl_options' = ydl_options]_vars

\* A second build is due with the arguments and the directory of the last
\* one, the directory now named by another path.
C7_Witness ==
    /\ pc = "build_options"
    /\ ydl_options # NoOptions
    /\ ydl_options.ffmpeg_location = ffmpeg_path
    /\ (ydl_options.format = "bestaudio/best") <=> is_audio_only
    /\ SubSeq(ydl_options.outtmpl, 1, Len(ydl_options.outtmpl) - 1)
          = Resolve(DEFAULT_DOWNLOAD_PATH)
    /\ DEFAULT_DOWNLOAD_PATH = PathOf(<<"/", "w", "/", "x">>)

\* C8: the record built for an iteration has the audio-extraction directive
\* (mp3, 192) and the extraction mark exactly when audio-only is set, the
\* best-audio selector when it is set and the combined selector otherwise,
\* the skip-and-continue error policy, and the binary path it was given.
C8_OptionsRecord ==
    pc \in {"enter_session", "download", "open_folder", "exit_session",
            "handle_error", "ask_continue"} =>
        /\ ("postprocessors" \in DOMAIN ydl_options) <=> is_audio_only
        /\ ("extract_audio" \in DOMAIN ydl_options) <=> is_audio_only
        /\ is_audio_only =>
              /\ ydl_options.postprocessors =
                    << [key              |-> "FFmpegExtractAudio",
                        preferredcodec   |-> "mp3",
                        preferredquality |-> "192"] >>
              /\ ydl_options.extract_audio = TRUE
        /\ ydl_options.format = IF is_audio_only THEN "bestaudio/best"
                                                 ELSE "bestvideo*+bestaudio/best"
        /\ ydl_options.ignoreerrors = TRUE
        /\ ydl_options.ffmpeg_location = ffmpeg_path

C8_Witness ==
    /\ pc = "download"
    /\ is_audio_only
    /\ "postprocessors" \in DOMAIN ydl_options
    /\ ydl_options.ffmpeg_location = "/usr/bin/ffmpeg"

\* C9: find_ffmpeg_path returns the search-path hit when there is one,
\* whatever candidates exist; otherwise the resolved form of the existing
\* candidate with the least index; otherwise None.
C9_LocatorPriority ==
    pc = "check_ffmpeg" =>
        ffmpeg_path =
            IF which_ffmpeg # NoneValue THEN which_ffmpeg
            ELSE IF existing_common = {} THEN NoneValue
            ELSE ResolvedStr(common_paths[
                     CHOOSE i \in existing_common :
                         \A j \in existing_common : i <= j])

C9_Witness ==
    /\ pc = "check_ffmpeg"
    /\ which_ffmpeg = NoneValue
    /\ existing_common = {2, 4}
    /\ ffmpeg_path = ResolvedStr(common_paths[2])

\* C10: with no search-path hit and no candidate on disk, find_ffmpeg_path
\* returns None, main warns, takes the bare command name "ffmpeg" and goes
\* to the URL prompt, and the loop runs with that binary path.
C10_NotFoundFallsBack ==
    /\ []((which_ffmpeg = NoneValue /\ existing_common = {}) =>
             /\ pc = "check_ffmpeg" => ffmpeg_path = NoneValue
             /\ pc \in LoopPcs => ffmpeg_path = "ffmpeg")
    /\ [][(pc = "check_ffmpeg" /\ ffmpeg_path = NoneValue) =>
             /\ pc' = "prompt_url"
             /\ ffmpeg_path' = "ffmpeg"
             /\ LastMsg' = "ffmpeg_not_found"]_vars

C10_Witness ==
    /\ which_ffmpeg = NoneValue
    /\ existing_common = {}
    /\ pc = "open_folder"
    /\ ydl_options.ffmpeg_location = "ffmpeg"

\* C11: a turn of the mode prompt ends the prompt exactly when the line
\* read, lowercased, is "v" or "a", and then audio-only is set exactly for
\* "a"; on any other line, the empty one included, the input is reported
\* invalid, nothing is returned and the prompt is asked again.
C11_ModeTokens ==
    [][pc = "prompt_mode" =>
          IF Lower(mode_input') \in {<<"v">>, <<"a">>}
          THEN /\ pc' = "check_url"
               /\ is_audio_only' = (Lower(mode_input') = <<"a">>)
               /\ out' = out
          ELSE /\ pc' = "prompt_mode"
               /\ out' = Append(out, Say("invalid_mode"))
               /\ is_audio_only' = is_audio_only
               /\ url' = url]_vars

\* The prompt was left on an upper-case "A" after an invalid line.
C11_Witness ==
    /\ pc = "check_url"
    /\ mode_input = <<"A">>
    /\ is_audio_only
    /\ Printed("invalid_mode")

\* C12: the continue-prompt ends the loop exactly when the line read,
\* lowercased, is one of "no", "n" and the Arabic no; any other line, the
\* empty one included, starts the next iteration at the URL prompt.
C12_ContinuePrompt ==
    [][pc = "ask_continue" =>
          /\ cont' = Lower(cont_input')
          /\ IF Lower(cont_input') \in
                   { <<"n", "o">>, <<"n">>, <<"LAM", "ALEF">> }
             THEN pc' = "press_enter"
             ELSE pc' = "prompt_url"]_vars

C12_Witness ==
    /\ pc = "press_enter"
    /\ cont_input = <<"N", "O">>
    /\ LastMsg = "goodbye"

\* C13: once an empty URL was read, the iteration goes on to the remaining
\* prompts and the empty-URL check and from there back to the URL prompt; it
\* creates no folder, builds no options, opens no session, and the process
\* does not end.
C13_EmptyUrlAborts ==
    [][(\/ pc \in {"prompt_path", "prompt_mode"} /\ input_url = ""
        \/ pc = "check_url" /\ url = "")
          => /\ pc' \in {"prompt_mode", "check_url", "prompt_url"}
             /\ fs' = fs
             /\ ydl_options' = ydl_options
             /\ sessions' = sessions]_vars

\* C14: the folder opener runs right after the completion banner of a
\* download that returned, inside the session; whether it starts the file
\* manager or fails, it prints its line, raises nothing, and the next stop
\* after the session is the continue-prompt.  At the continue-prompt the
\* opener has run exactly when the download had returned.
C14_OpenerAfterSuccess ==
    /\ [](pc = "open_folder" =>
             LastMsg = "complete" /\ exc = "none" /\ sessions = 1)
    /\ [](pc = "ask_continue" =>
             (Printed("complete") <=>
                  (Printed("opening") \/ Printed("open_failed"))))
    /\ [][/\ (pc = "download" /\ exc' = "none") =>
                 (pc' = "open_folder" /\ LastMsg' = "complete")
          /\ pc = "open_folder" =>
                 /\ pc' = "exit_session"
                 /\ exc' = "none"
                 /\ LastMsg' \in {"opening", "open_failed"}
          /\ (pc = "exit_session" /\ exc = "none") => pc' = "ask_continue"]_vars

C14_Witness ==
    /\ pc = "ask_continue"
    /\ LastMsg = "open_failed"
    /\ Printed("complete")

\* C15: the library updater runs as the first step of the process and no
\* step ever leads back to it; whether pip succeeds or fails, a line says so
\* and the process goes on to the binary lookup and from there to the URL
\* prompt; no later step prints an updater line.
C15_UpdaterOnceAtStart ==
    /\ [](pc \in {"find_ffmpeg", "check_ffmpeg"} =>
             Printed("update_ok") \/ Printed("update_failed"))
    /\ [][/\ pc' # "update" \/ pc = "update"
          /\ pc = "update" =>
                 /\ pc' = "find_ffmpeg"
                 /\ LastMsg' \in {"update_ok", "update_failed"}
          /\ pc = "find_ffmpeg" => pc' = "check_ffmpeg"
          /\ pc = "check_ffmpeg" => pc' = "prompt_url"
          /\ pc # "update" =>
                 \/ out' = out
                 \/ LastMsg' \notin {"checking_updates", "update_ok", "update_failed"}]_vars

\* The update failed and the first URL prompt is up.
C15_Witness ==
    /\ pc = "prompt_url"
    /\ Printed("update_failed")
    /\ Printed("ffmpeg_found")

\* C16: no step of the loop changes the binary path; every options record
\* carries it; the URL and the audio-only flag an iteration works with are
\* the ones read at its own prompts.
C16_BinaryPathFixed ==
    /\ []((pc \in LoopPcs \cup {"press_enter", "closed", "crashed"}
              /\ ydl_options # NoOptions)
             => ydl_options.ffmpeg_location = ffmpeg_path)
    /\ [][/\ pc \in LoopPcs => ffmpeg_path' = ffmpeg_path
          /\ (pc = "prompt_mode" /\ pc' = "check_url") =>
                 /\ url' = input_url
                 /\ is_audio_only' = (Lower(mode_input') = <<"a">>)
          /\ pc \in LoopPcs \ {"prompt_mode"} =>
                 (url' = url /\ is_audio_only' = is_audio_only)]_vars

\* A download of a later iteration, with a candidate path found at start.
C16_Witness ==
    /\ pc = "download"
    /\ cont_input # NotRead
    /\ ffmpeg_path = ResolvedStr(common_paths[3])
    /\ ydl_options.ffmpeg_location = ffmpeg_path

\* C17: from the building of the options to the end of the session, the
\* directory the folder step reported and left on disk, the directory of the
\* output template and the directory given to the folder opener are one
\* directory: what the destination path resolves to.
C17_OneDirectory ==
    pc \in {"enter_session", "download", "open_folder", "exit_session"} =>
        /\ \E i \in 1..Len(out) :
              out[i] = Msg("saved_in", Resolve(DEFAULT_DOWNLOAD_PATH))
        /\ \A i \in 1..Len(out) :
              out[i].m \in {"saved_in", "opening"} =>
                  out[i].arg = Resolve(DEFAULT_DOWNLOAD_PATH)
        /\ Resolve(DEFAULT_DOWNLOAD_PATH) \in fs
        /\ ydl_options.outtmpl =
              Append(Resolve(DEFAULT_DOWNLOAD_PATH), <<"%(title)s.%(ext)s">>)

\* The folder was opened for an override typed with "..".
C17_Witness ==
    /\ pc = "exit_session"
    /\ LastMsg = "opening"
    /\ DEFAULT_DOWNLOAD_PATH = PathOf(<<"x", "/", ".", ".">>)

\* C18: the continue-prompt is entered only from the end of a download
\* attempt, and an attempt once begun ends at it; the empty-URL check and a
\* failed folder step lead to the URL prompt; so the continue-prompt is up
\* only in iterations that built options, and the loop has been left only if
\* options were built at least once.
C18_ContinueOnlyAfterAttempt ==
    /\ [](pc = "ask_continue" => Printed("type_audio") \/ Printed("type_video"))
    /\ [](pc \in {"press_enter", "closed"} => ydl_options # NoOptions)
    /\ [][/\ pc' = "ask_continue" => pc \in {"exit_session", "handle_error"}
          /\ pc = "build_options" => pc' = "enter_session"
          /\ pc \in {"enter_session", "download", "open_folder",
                     "exit_session", "handle_error"} =>
                 pc' \in {"download", "open_folder", "exit_session",
                          "handle_error", "ask_continue"}
          /\ pc = "check_url" => pc' \in {"prompt_url", "ensure_folder"}
          /\ pc = "ensure_folder" => pc' \in {"prompt_url", "build_options"}]_vars

\* Nothing was ever attempted and the last iteration was aborted at the
\* empty-URL check.
C18_Witness ==
    /\ pc = "prompt_url"
    /\ LastMsg = "no_url"
    /\ ydl_options = NoOptions
    /\ cont_input = NotRead

\* C19: an iteration that is aborted at the empty-URL check or at the folder
\* step leaves the destination path as its path prompt set it; the next
\* iteration shows that path at its path prompt and goes on to the mode
\* prompt with it.
C19_AbortedOverrideKept ==
    [][/\ (pc \in {"check_url", "ensure_folder"} /\ pc' = "prompt_url") =>
              DEFAULT_DOWNLOAD_PATH' = DEFAULT_DOWNLOAD_PATH
       /\ pc = "prompt_url" =>
              (pc' = "prompt_path" /\ DEFAULT_DOWNLOAD_PATH' = DEFAULT_DOWNLOAD_PATH)
       /\ pc = "prompt_path" =>
              (pc' = "prompt_mode" /\ LastMsg' = "current_path")]_vars

\* C20: the path prompt follows the URL prompt and the mode prompt follows
\* the path prompt; get_user_input returns from the mode prompt only, on a
\* valid token, and main's url is assigned then; the empty-URL message comes
\* from the check after the return, so after the other two prompts.
C20_PromptOrder ==
    /\ [](Printed("no_url") => Printed("current_path"))
    /\ [][/\ pc = "prompt_url" => (pc' = "prompt_path" /\ url' = url)
          /\ pc' = "prompt_path" => pc = "prompt_url"
          /\ pc' = "prompt_mode" => pc \in {"prompt_path", "prompt_mode"}
          /\ pc' = "check_url" =>
                 /\ pc = "prompt_mode"
                 /\ Lower(mode_input') \in {<<"v">>, <<"a">>}
          /\ (LastMsg' = "no_url" /\ out' # out) => pc = "check_url"]_vars

\* An iteration with an empty URL was aborted after it had taken an override
\* and the mode "a".
C20_Witness ==
    /\ pc = "prompt_url"
    /\ LastMsg = "no_url"
    /\ DEFAULT_DOWNLOAD_PATH = PathOf(<<"x">>)
    /\ is_audio_only
    /\ ydl_options = NoOptions

====
